---- MODULE Spec2Model ----
(***************************************************************************)
(* Model of the FTP-over-TCP server of src/server.py: the accept loop of   *)
(* main(), one handle_client worker per connection, the clients registry   *)
(* under clients_lock, the shutdown event and the S3 bucket the commands   *)
(* ls / get / put read and write.                                          *)
(*                                                                         *)
(* Text on the wire is a sequence of one-character strings, so that the    *)
(* parsing the server does (strip, split, lower, int, basename, join) is   *)
(* computed as Python computes it.                                         *)
(***************************************************************************)
EXTENDS Integers, Sequences, FiniteSets, TLC

----------------------------------------------------------------------------
(* Bounds of the model *)

\* backend (S3) calls that may fail in one behaviour
MaxFaults == 1
\* segments a peer may have in flight (sent, not yet read by the server)
MaxInFlight == 1

\* server.py:13 BUFFER = 4096, scaled down: longer than every command of
\* the menu, shorter than the longest payload
BUFFER == 9
ClientBUFFER == 32

Conns == {1, 2}
Idents == {1, 2}

----------------------------------------------------------------------------
(* Text helpers: Python's str methods on sequences of characters *)

UpperChars == <<"A","B","C","D","E","F","G","H","I","J","K","L","M",
                "N","O","P","Q","R","S","T","U","V","W","X","Y","Z">>
LowerChars == <<"a","b","c","d","e","f","g","h","i","j","k","l","m",
                "n","o","p","q","r","s","t","u","v","w","x","y","z">>
Digits == <<"0","1","2","3","4","5","6","7","8","9">>

IsSpace(ch) == ch \in {" ", "\n", "\t", "\r"}

IsDigit(ch) == \E i \in 1..10 : Digits[i] = ch

DigitVal(ch) == (CHOOSE i \in 1..10 : Digits[i] = ch) - 1

\* str.lower() on one character
LowerCh(ch) ==
    IF \E i \in 1..26 : UpperChars[i] = ch
    THEN LowerChars[CHOOSE i \in 1..26 : UpperChars[i] = ch]
    ELSE ch

\* parts[0].lower()
Lower(tok) == [i \in 1..Len(tok) |-> LowerCh(tok[i])]

\* str.split(): the maximal runs of non-whitespace characters, in order.
\* (strip() before split() changes nothing split() does not already drop.)
RECURSIVE SplitFrom(_, _, _, _)
SplitFrom(s, i, cur, acc) ==
    IF i > Len(s)
    THEN IF cur = <<>> THEN acc ELSE Append(acc, cur)
    ELSE IF IsSpace(s[i])
         THEN SplitFrom(s, i + 1, <<>>, IF cur = <<>> THEN acc ELSE Append(acc, cur))
         ELSE SplitFrom(s, i + 1, Append(cur, s[i]), acc)

Split(s) == SplitFrom(s, 1, <<>>, <<>>)

\* data.decode(errors="ignore").strip(): leading and trailing whitespace removed
RECURSIVE LStrip(_)
LStrip(s) == IF s # <<>> /\ IsSpace(Head(s)) THEN LStrip(Tail(s)) ELSE s

RECURSIVE RStrip(_)
RStrip(s) ==
    IF s # <<>> /\ IsSpace(s[Len(s)]) THEN RStrip(SubSeq(s, 1, Len(s) - 1)) ELSE s

Strip(s) == RStrip(LStrip(s))

\* " ".join(toks)
RECURSIVE Join(_)
Join(toks) ==
    IF toks = <<>> THEN <<>>
    ELSE IF Len(toks) = 1 THEN toks[1]
    ELSE toks[1] \o <<" ">> \o Join(Tail(toks))

\* (mutant) the name is passed on as it came
BasenameWhole(p) == p

\* os.path.basename(p): what follows the last "/"
RECURSIVE Basename(_)
Basename(p) ==
    IF \E i \in 1..Len(p) : p[i] = "/"
    THEN Basename(SubSeq(p, (CHOOSE i \in 1..Len(p) : p[i] = "/") + 1, Len(p)))
    ELSE p

\* the digits of an int() literal: digits, single underscores between digits only
DigitsOk(d) ==
    /\ d # <<>>
    /\ IsDigit(d[1])
    /\ IsDigit(d[Len(d)])
    /\ \A i \in 1..Len(d) : IsDigit(d[i]) \/ d[i] = "_"
    /\ \A i \in 1..(Len(d) - 1) : ~(d[i] = "_" /\ d[i + 1] = "_")

RECURSIVE DigitsValue(_, _)
DigitsValue(d, acc) ==
    IF d = <<>> THEN acc
    ELSE IF Head(d) = "_" THEN DigitsValue(Tail(d), acc)
    ELSE DigitsValue(Tail(d), 10 * acc + DigitVal(Head(d)))

\* (mutant) int() that yields 0 where Python raises ValueError
ParseIntLenient(tok) ==
    IF DigitsOk(tok) THEN [ok |-> TRUE, val |-> DigitsValue(tok, 0)]
    ELSE [ok |-> TRUE, val |-> 0]

\* int(tok): [ok |-> FALSE] stands for ValueError
ParseInt(tok) ==
    IF tok # <<>> /\ Head(tok) \in {"+", "-"}
    THEN IF DigitsOk(Tail(tok))
         THEN [ok |-> TRUE,
               val |-> IF Head(tok) = "-" THEN 0 - DigitsValue(Tail(tok), 0)
                       ELSE DigitsValue(Tail(tok), 0)]
         ELSE [ok |-> FALSE, val |-> 0]
    ELSE IF DigitsOk(tok) THEN [ok |-> TRUE, val |-> DigitsValue(tok, 0)]
    ELSE [ok |-> FALSE, val |-> 0]

Min(a, b) == IF a < b THEN a ELSE b


\* str(n) for n >= 0
RECURSIVE Dec(_)
Dec(n) == IF n < 10 THEN <<Digits[n + 1]>> ELSE Dec(n \div 10) \o <<Digits[(n % 10) + 1]>>

\* f"{size:12}": right-aligned in a field of 12
Pad12(t) == [i \in 1..(IF Len(t) < 12 THEN 12 - Len(t) ELSE 0) |-> " "] \o t

\* obj["LastModified"].strftime("%Y-%m-%d %H:%M:%S"): a date token and a time
\* token; the clock is not modelled, every object carries the same stamp
LastMod == <<"D", " ", "T">>

\* f"{size:12} {last_mod} {name}"
LsRow(size, name) == Pad12(Dec(size)) \o <<" ">> \o LastMod \o <<" ">> \o name

\* "\n".join(rsp_lines) + "\n"
RECURSIVE JoinLines(_)
JoinLines(rows) ==
    IF rows = <<>> THEN <<>> ELSE Head(rows) \o <<"\n">> \o JoinLines(Tail(rows))

\* f"OK {filesize}"
OkSize(n) == <<"O", "K", " ">> \o Dec(n)

\* the lines of a listing, as the client splits them
RECURSIVE LinesFrom(_, _, _)
LinesFrom(s, cur, acc) ==
    IF s = <<>> THEN (IF cur = <<>> THEN acc ELSE Append(acc, cur))
    ELSE IF Head(s) = "\n" THEN LinesFrom(Tail(s), <<>>, Append(acc, cur))
    ELSE LinesFrom(Tail(s), Append(cur, Head(s)), acc)

Lines(s) == LinesFrom(s, <<>>, <<>>)

IsPrefix(a, b) == Len(a) <= Len(b) /\ SubSeq(b, 1, Len(a)) = a

----------------------------------------------------------------------------
(* What the peers send: each peer follows one script, a sequence of         *)
(* segments; a segment is what one send() of the peer puts on the wire.     *)

Cmd(toks) == [cmd |-> TRUE, text |-> Join(toks)]
Data(chars) == [cmd |-> FALSE, text |-> chars]

W_put == <<"p", "u", "t">>
W_get == <<"g", "e", "t">>
W_ls == <<"l", "s">>
W_shutdown == <<"s", "h", "u", "t", "d", "o", "w", "n">>
N_x == <<"x">>
N_y == <<"y">>
N_dx == <<"d", "/", "x">>
AckOK == Data(<<"O", "K">>)
Big == <<"a", "b", "c", "d", "e", "f", "g", "h", "i", "j">>

ProtocolScripts ==
    { <<Cmd(<<W_put, N_x, <<"2">>>>), Data(<<"a">>), Data(<<"b">>), Cmd(<<W_get, N_x>>), AckOK>>,
      <<Cmd(<<W_put, N_x, <<"1", "0">>>>), Data(Big), Cmd(<<W_get, N_x>>), AckOK>>,
      <<Cmd(<<W_put, N_dx, <<"1">>>>), Data(<<"a">>), Cmd(<<W_get, N_x>>), AckOK, Cmd(<<W_ls>>)>>,
      <<Cmd(<<W_put, N_x, <<"z", "z">>>>), Cmd(<<W_ls>>)>>,
      <<Cmd(<<W_put, N_x, <<"-", "1">>>>), Cmd(<<W_ls>>), Cmd(<<W_get, N_x>>), AckOK>>,
      <<Cmd(<<W_put, N_x, <<"0">>>>), Cmd(<<W_get, N_x>>), AckOK>>,
      <<Cmd(<<W_put, N_x, <<"2">>>>), Data(<<"a", "b", "c">>), Cmd(<<W_ls>>)>>,
      <<Cmd(<<<<"f", "o", "o">>>>), Cmd(<<<<"L", "S">>>>), Cmd(<<W_get>>), Cmd(<<W_put, N_x>>)>>,
      <<Cmd(<<W_shutdown>>)>>,
      <<Cmd(<<W_get, N_y>>), AckOK, Cmd(<<<<"G", "e", "t">>, N_dx>>)>>,
      <<Data(<<" ", "\n">>), Cmd(<<W_ls>>)>>,
      <<Cmd(<<W_put, N_x, <<"1">>>>), Data(<<"a">>), Cmd(<<W_get, N_dx>>), AckOK>> }

ConcurrentScripts ==
    { <<1, <<Cmd(<<W_put, N_x, <<"1">>>>), Data(<<"a">>)>>,
       2, <<Cmd(<<W_get, N_x>>), AckOK>>>>,
      <<1, <<Cmd(<<W_put, N_x, <<"1">>>>), Data(<<"a">>)>>,
       2, <<Cmd(<<W_put, N_dx, <<"1">>>>), Data(<<"b">>)>>>>,
      <<1, <<Cmd(<<W_put, N_x, <<"1">>>>), Data(<<"a">>)>>,
       2, <<Cmd(<<W_ls>>)>>>> }

ShutdownScripts ==
    { <<1, <<Cmd(<<W_ls>>)>>, 2, <<Cmd(<<W_ls>>)>>>> }

CommandShutdownScripts ==
    { <<1, <<Cmd(<<W_shutdown>>)>>, 2, <<Cmd(<<W_ls>>)>>>> }

\* what the user of client.py types at the prompt, line by line
ClientScripts ==
    { <<Cmd(<<W_put, N_x>>), Cmd(<<W_ls>>), Cmd(<<W_get, N_x>>)>>,
      <<Cmd(<<W_put, N_dx>>), Cmd(<<W_get, N_x>>)>>,
      <<Cmd(<<W_ls>>), Cmd(<<W_get, N_y>>), Cmd(<<<<"c", "d">>>>), Cmd(<<W_put, N_y>>)>> }

\* the files in the user's working directory: path -> content
LocalFiles == [p \in {N_x, N_dx} |-> <<"a">>]

Solo(s) == [c \in Conns |-> IF c = 1 THEN s ELSE <<>>]
Pair(p) == [c \in Conns |-> IF c = p[1] THEN p[2] ELSE p[4]]

\* a scenario: the scripts of the peers, the backend calls that may fail, and
\* whether the operator sends SIGTERM / SIGINT ("never", or "pending" until it
\* is "sent")
Scenarios ==
    { [scripts |-> Solo(s), faults |-> MaxFaults, signal |-> "pending", client |-> FALSE] :
          s \in ProtocolScripts }
    \cup { [scripts |-> Pair(p), faults |-> 0, signal |-> "never", client |-> FALSE] :
              p \in ConcurrentScripts \cup CommandShutdownScripts }
    \cup { [scripts |-> Pair(p), faults |-> 0, signal |-> "pending", client |-> FALSE] :
              p \in ShutdownScripts }
    \cup { [scripts |-> Solo(s), faults |-> 0, signal |-> "never", client |-> TRUE] :
              s \in ClientScripts }

----------------------------------------------------------------------------
(* State *)

VARIABLES
    script,          \* peer: the segments each peer has still to send
    signal,          \* operator: the termination signal: "never", "pending", "sent"
    peer,            \* peer end of each connection: "none", "open", "closed"
    inbuf,           \* segments in flight from each peer to the server
    sock,            \* server end (conn): "none", "backlog", "open", "closed"
    pc,              \* position of each handle_client worker
    ident,           \* threading.get_ident() of each worker (0: no thread)
    w,               \* locals of each worker: safe, remaining, body, pos
    clients,         \* server.py:23 the registry, a list of conns
    lock,            \* server.py:24 clients_lock: <<>> free, else its holder
    shutdown_event,  \* server.py:25
    mainPc,          \* position of main(): "check", "accept", "walk", ..., "done"
    walk,            \* main(): the rest of list(clients) in the shutdown walk
    store,           \* the S3 bucket: key -> bytes
    tmpfs,           \* /tmp/upload-<ident>-<safe>: path -> bytes
    faults,          \* backend calls that may still fail
    log,             \* history: what each worker did for its current command
    cur,             \* history: the command each worker is serving
    sentData,        \* history: payload bytes each peer sent since its last command
    puts,            \* history: per key, the last put that was committed
    expect,          \* history: per worker, puts[key] when its get opened the object
    regs,            \* history: per conn, registrations and deregistrations so far
    wire,            \* per conn: n, the commands its worker has read; q, the bytes on
                     \* their way to client.py, each with the n of its command
    client           \* client.py on each connection: its position and locals

vars == <<script, signal, peer, inbuf, sock, pc, ident, w, clients, lock, shutdown_event,
          mainPc, walk, store, tmpfs, faults, log, cur, sentData, puts, expect, regs,
          wire, client>>

envVars == <<script, signal, peer, sentData>>
workerVars == <<pc, ident, w>>
mainVars == <<mainPc, walk>>
histVars == <<log, cur, puts, expect>>

W0 == [safe |-> <<>>, remaining |-> 0, body |-> <<>>, pos |-> 0]
NoCmd == [parts |-> <<>>, fresh |-> FALSE]
NoPut == [known |-> FALSE, data |-> <<>>, declared |-> 0, answered |-> FALSE]
Free == <<>>
MainThread == <<"main">>
Worker(c) == <<"worker", c>>

\* one entry of log: k is its kind, s a fixed text, n a number, b bytes
Ev(k, s, n, b) == [k |-> k, s |-> s, n |-> n, b |-> b]
Sent(text) == Ev("send", text, 0, <<>>)
SentBytes(b) == Ev("bytes", "", 0, b)
Metric(name) == Ev("metric", name, 0, <<>>)

\* .encode(): the bytes of each fixed text the server sends
Chars(text) ==
    CASE text = "No files in bucket\n" ->
             <<"N", "o", " ", "f", "i", "l", "e", "s", " ", "i", "n", " ", "b", "u", "c", "k", "e", "t", "\n">>
      [] text = "ERR S3 list error\n" ->
             <<"E", "R", "R", " ", "S", "3", " ", "l", "i", "s", "t", " ", "e", "r", "r", "o", "r", "\n">>
      [] text = "ERR File not found\n" ->
             <<"E", "R", "R", " ", "F", "i", "l", "e", " ", "n", "o", "t", " ", "f", "o", "u", "n", "d", "\n">>
      [] text = "ERR Invalid GET format\n" ->
             <<"E", "R", "R", " ", "I", "n", "v", "a", "l", "i", "d", " ", "G", "E", "T", " ", "f", "o", "r", "m", "a", "t", "\n">>
      [] text = "ERR Invalid PUT format\n" ->
             <<"E", "R", "R", " ", "I", "n", "v", "a", "l", "i", "d", " ", "P", "U", "T", " ", "f", "o", "r", "m", "a", "t", "\n">>
      [] text = "ERR Invalid filesize\n" ->
             <<"E", "R", "R", " ", "I", "n", "v", "a", "l", "i", "d", " ", "f", "i", "l", "e", "s", "i", "z", "e", "\n">>
      [] text = "OK" ->
             <<"O", "K">>
      [] text = "ERR Upload failed\n" ->
             <<"E", "R", "R", " ", "U", "p", "l", "o", "a", "d", " ", "f", "a", "i", "l", "e", "d", "\n">>
      [] text = "OK Uploaded\n" ->
             <<"O", "K", " ", "U", "p", "l", "o", "a", "d", "e", "d", "\n">>
      [] text = "OK Shutting down\n" ->
             <<"O", "K", " ", "S", "h", "u", "t", "t", "i", "n", "g", " ", "d", "o", "w", "n", "\n">>
      [] text = "ERR Unknown command\n" ->
             <<"E", "R", "R", " ", "U", "n", "k", "n", "o", "w", "n", " ", "c", "o", "m", "m", "a", "n", "d", "\n">>
      [] text = "SHUTDOWN" ->
             <<"S", "H", "U", "T", "D", "O", "W", "N">>

\* the bytes an entry of log put on the connection
EvBytes(e) ==
    IF e.k \in {"send", "bcast"} THEN Chars(e.s)
    ELSE IF e.k \in {"hdr", "rows", "bytes"} THEN e.b
    ELSE <<>>

RECURSIVE LogBytes(_)
LogBytes(l) == IF l = <<>> THEN <<>> ELSE EvBytes(Head(l)) \o LogBytes(Tail(l))

\* bytes on their way to client.py, each with the number of the command the
\* worker was serving when they were written
Tagged(bytes, n) == [i \in 1..Len(bytes) |-> [ch |-> bytes[i], n |-> n]]
Untagged(q) == [i \in 1..Len(q) |-> q[i].ch]

\* client.py is not running on the connection: its peer is a scripted one
ClientOff == [pc |-> "off", n |-> 0, path |-> <<>>, remaining |-> 0, resp |-> <<>>]
ClientStart == [pc |-> "prompt", n |-> 0, path |-> <<>>, remaining |-> 0, resp |-> <<>>]

Init ==
    /\ \E sc \in Scenarios :
        /\ script = sc.scripts
        /\ faults = sc.faults
        /\ signal = sc.signal
        /\ client = [c \in Conns |-> IF sc.client /\ sc.scripts[c] # <<>>
                                      THEN ClientStart ELSE ClientOff]
    /\ wire = [c \in Conns |-> [n |-> 0, q |-> <<>>]]
    /\ peer = [c \in Conns |-> "none"]
    /\ inbuf = [c \in Conns |-> <<>>]
    /\ sock = [c \in Conns |-> "none"]
    /\ pc = [c \in Conns |-> "none"]
    /\ ident = [c \in Conns |-> 0]
    /\ w = [c \in Conns |-> W0]
    /\ clients = <<>>
    /\ lock = Free
    /\ shutdown_event = FALSE
    /\ mainPc = "check"
    /\ walk = <<>>
    /\ store = <<>>
    /\ tmpfs = <<>>
    /\ log = [c \in Conns |-> <<>>]
    /\ cur = [c \in Conns |-> NoCmd]
    /\ sentData = [c \in Conns |-> <<>>]
    /\ puts = <<>>
    /\ expect = [c \in Conns |-> NoPut]
    /\ regs = [c \in Conns |-> [reg |-> 0, dereg |-> 0]]

----------------------------------------------------------------------------
(* The peers *)

\* connect(): the connection waits in the listen backlog
PeerConnect(c) ==
    /\ mainPc # "done"
    /\ peer[c] = "none"
    /\ script[c] # <<>>
    /\ peer' = [peer EXCEPT ![c] = "open"]
    /\ sock' = [sock EXCEPT ![c] = "backlog"]
    /\ UNCHANGED <<script, signal, inbuf, sentData, workerVars, clients, lock,
                   shutdown_event, mainVars, store, tmpfs, faults, histVars, regs>>
    /\ UNCHANGED <<wire, client>>

\* the peer sends the next segment of its script
PeerSend(c) ==
    /\ client[c].pc = "off"
    /\ mainPc # "done"
    /\ peer[c] = "open"
    /\ sock[c] = "open"
    /\ script[c] # <<>>
    /\ Len(inbuf[c]) < MaxInFlight
    /\ LET seg == Head(script[c]) IN
        /\ inbuf' = [inbuf EXCEPT ![c] = Append(@, seg)]
        /\ sentData' = [sentData EXCEPT ![c] = IF seg.cmd THEN <<>> ELSE @ \o seg.text]
        /\ cur' = [cur EXCEPT ![c].fresh = IF seg.cmd THEN FALSE ELSE @]
    /\ script' = [script EXCEPT ![c] = Tail(@)]
    /\ UNCHANGED <<signal, peer, sock, workerVars, clients, lock, shutdown_event, mainVars,
                   store, tmpfs, faults, log, puts, expect, regs>>
    /\ UNCHANGED <<wire, client>>

\* the peer closes its end, at any point of its script (what it does after the
\* server closed the connection, or after the server process ended, changes
\* nothing the server does)
PeerClose(c) ==
    /\ client[c].pc = "off"
    /\ mainPc # "done"
    /\ peer[c] = "open"
    /\ sock[c] \in {"backlog", "open"}
    /\ peer' = [peer EXCEPT ![c] = "closed"]
    /\ UNCHANGED <<script, signal, inbuf, sock, sentData, workerVars, clients, lock,
                   shutdown_event, mainVars, store, tmpfs, faults, histVars, regs>>
    /\ UNCHANGED <<wire, client>>

----------------------------------------------------------------------------
(* main(): the accept loop and the shutdown walk *)

LiveIdents == {ident[d] : d \in {e \in Conns : pc[e] \notin {"none", "done"}}}

\* threading.get_ident() is distinct among the live threads and may be reused
\* once a thread has ended: the new thread gets the smallest free one
FreeIdent == CHOOSE id \in Idents \ LiveIdents : \A o \in Idents \ LiveIdents : id <= o

\* while not shutdown_event.is_set()
MainCheck ==
    /\ mainPc = "check"
    /\ mainPc' = IF shutdown_event THEN "walk" ELSE "accept"
    /\ UNCHANGED <<envVars, inbuf, sock, workerVars, clients, lock, shutdown_event, walk,
                   store, tmpfs, faults, histVars, regs>>
    /\ UNCHANGED <<wire, client>>

\* conn, addr = server_sock.accept(); Thread(target=handle_client).start()
MainAccept(c) ==
    /\ mainPc = "accept"
    /\ sock[c] = "backlog"
    /\ ident' = [ident EXCEPT ![c] = FreeIdent]
    /\ sock' = [sock EXCEPT ![c] = "open"]
    /\ pc' = [pc EXCEPT ![c] = "register"]
    /\ mainPc' = "check"
    /\ UNCHANGED <<envVars, inbuf, w, clients, lock, shutdown_event, walk,
                   store, tmpfs, faults, histVars, regs>>
    /\ UNCHANGED <<wire, client>>

\* except socket.timeout: continue
MainAcceptTimeout ==
    /\ mainPc = "accept"
    /\ \A c \in Conns : sock[c] # "backlog"
    /\ mainPc' = "check"
    /\ UNCHANGED <<envVars, inbuf, sock, workerVars, clients, lock, shutdown_event, walk,
                   store, tmpfs, faults, histVars, regs>>
    /\ UNCHANGED <<wire, client>>

\* SIGTERM / SIGINT: the handler runs in the main thread, sets the event and
\* closes server_sock, which ends the accept loop
Signal ==
    /\ signal = "pending"
    /\ mainPc \in {"check", "accept"}
    /\ signal' = "sent"
    /\ shutdown_event' = TRUE
    /\ mainPc' = "walk"
    /\ UNCHANGED <<script, peer, sentData, inbuf, sock, workerVars, clients, lock, walk,
                   store, tmpfs, faults, histVars, regs>>
    /\ UNCHANGED <<wire, client>>

\* finally: with clients_lock: for c in list(clients)
MainWalkBegin ==
    /\ mainPc = "walk"
    /\ lock = Free
    /\ lock' = MainThread
    /\ walk' = clients
    /\ mainPc' = IF clients = <<>> THEN "walk_end" ELSE "walk_send"
    /\ UNCHANGED <<envVars, inbuf, sock, workerVars, clients, shutdown_event,
                   store, tmpfs, faults, histVars, regs>>
    /\ UNCHANGED <<wire, client>>

\* c.sendall(b"SHUTDOWN"), errors swallowed
MainWalkSend ==
    /\ mainPc = "walk_send"
    /\ LET c == Head(walk) IN
        log' = [log EXCEPT ![c] =
                   IF sock[c] = "open" THEN Append(@, Ev("bcast", "SHUTDOWN", 0, <<>>)) ELSE @]
    /\ mainPc' = "walk_close"
    /\ UNCHANGED <<envVars, inbuf, sock, workerVars, clients, lock, shutdown_event, walk,
                   store, tmpfs, faults, cur, puts, expect, regs>>
    /\ LET c == Head(walk) IN
        wire' = [wire EXCEPT ![c].q =
                    IF sock[c] = "open" /\ client[c].pc # "off"
                    THEN @ \o Tagged(Chars("SHUTDOWN"), wire[c].n) ELSE @]
    /\ UNCHANGED client

\* c.shutdown(socket.SHUT_RDWR); c.close()
MainWalkClose ==
    /\ mainPc = "walk_close"
    /\ sock' = [sock EXCEPT ![Head(walk)] = "closed"]
    /\ walk' = Tail(walk)
    /\ mainPc' = IF Tail(walk) = <<>> THEN "walk_end" ELSE "walk_send"
    /\ UNCHANGED <<envVars, inbuf, workerVars, clients, lock, shutdown_event,
                   store, tmpfs, faults, histVars, regs>>
    /\ UNCHANGED <<wire, client>>

\* the with block ends; main() returns and the process exits, which ends the
\* daemon worker threads where they stand
MainWalkEnd ==
    /\ mainPc = "walk_end"
    /\ lock' = Free
    /\ mainPc' = "done"
    /\ UNCHANGED <<envVars, inbuf, sock, workerVars, clients, shutdown_event, walk,
                   store, tmpfs, faults, histVars, regs>>
    /\ UNCHANGED <<wire, client>>

Running == mainPc # "done"

----------------------------------------------------------------------------
(* Sockets and the backend, as handle_client sees them *)

\* conn.sendall(): fails on a socket main() closed; after the peer closed its
\* end the write may still be taken or fail
SendOutcomes(c) ==
    IF sock[c] # "open" THEN {FALSE}
    ELSE IF peer[c] = "closed" THEN {TRUE, FALSE}
    ELSE {TRUE}

\* (mutant) a read with nothing to read reports the end of the stream
RecvResultIdleEof(c, n) ==
    IF sock[c] # "open"
    THEN [kind |-> "error", data |-> <<>>, rest |-> inbuf[c], whole |-> FALSE]
    ELSE IF inbuf[c] # <<>>
    THEN LET seg == Head(inbuf[c])
             k == Min(n, Len(seg.text))
         IN  [kind |-> "data",
              data |-> SubSeq(seg.text, 1, k),
              rest |-> IF k = Len(seg.text) THEN Tail(inbuf[c])
                       ELSE <<Data(SubSeq(seg.text, k + 1, Len(seg.text)))>> \o Tail(inbuf[c]),
              whole |-> seg.cmd /\ k = Len(seg.text)]
    ELSE [kind |-> "eof", data |-> <<>>, rest |-> <<>>, whole |-> FALSE]

\* conn.recv(n): OSError on a closed socket, else up to n bytes of the first
\* segment in flight, else b"" after the peer closed, else socket.timeout
RecvResult(c, n) ==
    IF sock[c] # "open"
    THEN [kind |-> "error", data |-> <<>>, rest |-> inbuf[c], whole |-> FALSE]
    ELSE IF inbuf[c] # <<>>
    THEN LET seg == Head(inbuf[c])
             k == Min(n, Len(seg.text))
         IN  [kind |-> "data",
              data |-> SubSeq(seg.text, 1, k),
              rest |-> IF k = Len(seg.text) THEN Tail(inbuf[c])
                       ELSE <<Data(SubSeq(seg.text, k + 1, Len(seg.text)))>> \o Tail(inbuf[c]),
              whole |-> seg.cmd /\ k = Len(seg.text)]
    ELSE IF peer[c] = "closed"
    THEN [kind |-> "eof", data |-> <<>>, rest |-> <<>>, whole |-> FALSE]
    ELSE [kind |-> "timeout", data |-> <<>>, rest |-> <<>>, whole |-> FALSE]

\* an S3 call answers, raises botocore ClientError, or raises something else
\* (no route to the endpoint, a read error)
BackendOutcomes == IF faults > 0 THEN {"ok", "client_error", "other_error"} ELSE {"ok"}

Spend(out) == faults' = IF out = "ok" THEN faults ELSE faults - 1

\* the enumeration orders of a listing
Orders(S) ==
    {o \in [1..Cardinality(S) -> S] : \A i, j \in 1..Cardinality(S) : i # j => o[i] # o[j]}

\* (mutant) the final else serves the listing instead of rejecting the command
DispatchNoUnknown(command) ==
    IF command = W_ls THEN "ls"
    ELSE IF command = W_get THEN "get"
    ELSE IF command = W_put THEN "put"
    ELSE IF command = W_shutdown THEN "shutdown"
    ELSE "ls"

\* server.py:71-183 the branch the first token selects
Dispatch(command) ==
    IF command = W_ls THEN "ls"
    ELSE IF command = W_get THEN "get"
    ELSE IF command = W_put THEN "put"
    ELSE IF command = W_shutdown THEN "shutdown"
    ELSE "unknown"

\* (mutant) the check of the acknowledgment is left out
AckAlways(ack) == TRUE

\* server.py:112 if not ack: continue
AckReceived(ack) == ack # <<>>

\* server.py:152 conn.recv(min(BUFFER, remaining))
RecvSize(remaining) == Min(BUFFER, remaining)

\* (mutant) each chunk overwrites the file instead of extending it
FileWriteOver(content, chunk) == chunk

\* server.py:155 f.write(chunk)
FileWrite(content, chunk) == content \o chunk

\* server.py:151 while remaining > 0
PutNext(remaining) == IF remaining > 0 THEN "put_recv" ELSE "put_upload"

\* server.py:118 chunk = body.read(BUFFER)
BodyRead(body, pos) == SubSeq(body, pos + 1, Min(pos + BUFFER, Len(body)))

\* (mutant) the thread ident is left out of the path
TmpPathShared(c, safe) == <<0, safe>>

\* server.py:148 tmp_path
TmpPath(c, safe) == <<ident[c], safe>>

\* dict-like update and removal of one key
Put(f, k, v) == [x \in DOMAIN f \cup {k} |-> IF x = k THEN v ELSE f[x]]
Drop(f, k) == [x \in DOMAIN f \ {k} |-> f[x]]

\* (mutant) the removal is left out
RemoveNone(q, c) == q

\* clients.remove(conn): the first occurrence
RemoveFirst(q, c) ==
    LET i == CHOOSE j \in 1..Len(q) : q[j] = c /\ \A m \in 1..(j - 1) : q[m] # c
    IN  SubSeq(q, 1, i - 1) \o SubSeq(q, i + 1, Len(q))

InList(q, c) == \E i \in 1..Len(q) : q[i] = c

----------------------------------------------------------------------------
(* handle_client: registration and the command loop *)

\* server.py:43-44 with clients_lock: clients.append(conn)
Register(c) ==
    /\ Running
    /\ pc[c] = "register"
    /\ lock = Free
    /\ lock' = Worker(c)
    /\ clients' = Append(clients, c)
    /\ regs' = [regs EXCEPT ![c].reg = @ + 1]
    /\ pc' = [pc EXCEPT ![c] = "register_metric"]
    /\ UNCHANGED <<envVars, inbuf, sock, ident, w, shutdown_event, mainVars,
                   store, tmpfs, faults, histVars>>
    /\ UNCHANGED <<wire, client>>

\* server.py:45 put_metric("ActiveClients", ...) inside the with block
RegisterMetric(c) ==
    /\ Running
    /\ pc[c] = "register_metric"
    /\ lock' = Free
    /\ pc' = [pc EXCEPT ![c] = "loop"]
    /\ UNCHANGED <<envVars, inbuf, sock, ident, w, clients, shutdown_event, mainVars,
                   store, tmpfs, faults, histVars, regs>>
    /\ UNCHANGED <<wire, client>>

\* server.py:50 while not shutdown_event.is_set()
LoopCheck(c) ==
    /\ Running
    /\ pc[c] = "loop"
    /\ pc' = [pc EXCEPT ![c] = IF shutdown_event THEN "finally" ELSE "recv"]
    /\ UNCHANGED <<envVars, inbuf, sock, ident, w, clients, lock, shutdown_event, mainVars,
                   store, tmpfs, faults, histVars, regs>>
    /\ UNCHANGED <<wire, client>>

Got(c) == RecvResult(c, BUFFER)
Parts(c) == Split(Strip(Got(c).data))

\* what the step of worker c put on the connection: all of log'[c] when the
\* step read a command (the log starts anew), else what log'[c] has gained
ReadsCommand(c) ==
    pc[c] = "recv" /\ pc'[c] # "recv" /\ Got(c).kind = "data" /\ Parts(c) # <<>>

NewEvents(c) ==
    IF ReadsCommand(c) THEN log'[c] ELSE SubSeq(log'[c], Len(log[c]) + 1, Len(log'[c]))

\* the connection as client.py sees it, kept where client.py is the peer
Wire(c) ==
    /\ wire' = [wire EXCEPT ![c] =
                   IF client[c].pc = "off" THEN @
                   ELSE LET n == IF ReadsCommand(c) THEN @.n + 1 ELSE @.n
                        IN  [n |-> n, q |-> @.q \o Tagged(LogBytes(NewEvents(c)), n)]]
    /\ UNCHANGED client

\* server.py:53-55 except socket.timeout: continue
RecvTimeout(c) ==
    /\ Running
    /\ pc[c] = "recv"
    /\ Got(c).kind = "timeout"
    /\ pc' = [pc EXCEPT ![c] = "loop"]
    /\ UNCHANGED <<envVars, inbuf, sock, ident, w, clients, lock, shutdown_event, mainVars,
                   store, tmpfs, faults, histVars, regs>>
    /\ Wire(c)

\* server.py:56-61 except OSError: break / if not data: break
RecvClosed(c) ==
    /\ Running
    /\ pc[c] = "recv"
    /\ Got(c).kind \in {"error", "eof"}
    /\ pc' = [pc EXCEPT ![c] = "finally"]
    /\ UNCHANGED <<envVars, inbuf, sock, ident, w, clients, lock, shutdown_event, mainVars,
                   store, tmpfs, faults, histVars, regs>>
    /\ Wire(c)

\* server.py:63-65 if not cmd: continue
RecvBlank(c) ==
    /\ Running
    /\ pc[c] = "recv"
    /\ Got(c).kind = "data"
    /\ Parts(c) = <<>>
    /\ inbuf' = [inbuf EXCEPT ![c] = Got(c).rest]
    /\ pc' = [pc EXCEPT ![c] = "loop"]
    /\ UNCHANGED <<envVars, sock, ident, w, clients, lock, shutdown_event, mainVars,
                   store, tmpfs, faults, histVars, regs>>
    /\ Wire(c)

\* a command was read: server.py:67-68
Serving(c, branch) ==
    /\ Running
    /\ pc[c] = "recv"
    /\ Got(c).kind = "data"
    /\ Parts(c) # <<>>
    /\ Dispatch(Lower(Parts(c)[1])) = branch
    /\ inbuf' = [inbuf EXCEPT ![c] = Got(c).rest]
    /\ cur' = [cur EXCEPT ![c] =
                 [parts |-> Parts(c),
                  fresh |-> Got(c).whole
                            /\ \A i \in 1..Len(Got(c).rest) : ~Got(c).rest[i].cmd]]

\* conn.sendall(text) as the last thing a branch does: on success the worker
\* goes on to okPc, on failure the exception leaves the loop
Reply(c, base, ev, okPc) ==
    \E ok \in SendOutcomes(c) :
        IF ok
        THEN /\ log' = [log EXCEPT ![c] = Append(base, ev)]
             /\ pc' = [pc EXCEPT ![c] = okPc]
        ELSE /\ log' = [log EXCEPT ![c] = Append(base, Ev("sendfail", "", 0, <<>>))]
             /\ pc' = [pc EXCEPT ![c] = "finally"]

\* the backend call raised something the branch does not catch
Raise(c, base) ==
    /\ log' = [log EXCEPT ![c] = Append(base, Ev("raise", "", 0, <<>>))]
    /\ pc' = [pc EXCEPT ![c] = "finally"]

\* server.py:71-89
Listing(order) == JoinLines([i \in 1..Len(order) |-> LsRow(Len(store[order[i]]), order[i])])

ServeLs(c) ==
    /\ Serving(c, "ls")
    /\ \E out \in BackendOutcomes :
        /\ Spend(out)
        /\ CASE out = "ok" ->
                  \E order \in Orders(DOMAIN store) :
                      IF order = <<>>
                      THEN Reply(c, <<>>, Sent("No files in bucket\n"), "loop")
                      ELSE Reply(c, <<>>, Ev("rows", "", 0, Listing(order)), "loop")
             [] out = "client_error" -> Reply(c, <<>>, Sent("ERR S3 list error\n"), "loop")
             [] out = "other_error" -> Raise(c, <<>>)
    /\ UNCHANGED <<envVars, sock, ident, w, clients, lock, shutdown_event, mainVars,
                   store, tmpfs, puts, expect, regs>>
    /\ Wire(c)

PutOf(k) == IF k \in DOMAIN puts THEN puts[k] ELSE NoPut

\* (mutant) break instead of continue
AfterNotFoundBreak == "finally"

\* server.py:101-103 except ClientError: send the error, continue
AfterNotFound == "loop"

\* server.py:92-106 the lookup and the "OK <size>" header
ServeGet(c) ==
    /\ Serving(c, "get")
    /\ LET parts == Parts(c)
           safe == Basename(Join(Tail(parts)))
       IN  IF Len(parts) < 2
           THEN /\ Reply(c, <<>>, Sent("ERR Invalid GET format\n"), "loop")
                /\ UNCHANGED <<faults, w, expect>>
           ELSE \E out \in BackendOutcomes :
                /\ Spend(out)
                /\ CASE out = "other_error" ->
                          /\ Raise(c, <<>>)
                          /\ UNCHANGED <<w, expect>>
                     [] out = "client_error" \/ (out = "ok" /\ safe \notin DOMAIN store) ->
                          /\ Reply(c, <<>>, Sent("ERR File not found\n"), AfterNotFound)
                          /\ UNCHANGED <<w, expect>>
                     [] out = "ok" /\ safe \in DOMAIN store ->
                          /\ Reply(c, <<>>, Ev("hdr", "", 0, OkSize(Len(store[safe]))), "get_ack")
                          /\ w' = [w EXCEPT ![c] = [safe |-> safe, remaining |-> 0,
                                                    body |-> store[safe], pos |-> 0]]
                          /\ expect' = [expect EXCEPT ![c] = PutOf(safe)]
    /\ UNCHANGED <<envVars, sock, ident, clients, lock, shutdown_event, mainVars,
                   store, tmpfs, puts, regs>>
    /\ Wire(c)

\* server.py:108-114 wait for the client's ACK
GetAck(c) ==
    /\ Running
    /\ pc[c] = "get_ack"
    /\ LET r == RecvResult(c, BUFFER)
           ack == IF r.kind = "data" THEN r.data ELSE <<>>
       IN  /\ inbuf' = [inbuf EXCEPT ![c] = IF r.kind = "data" THEN r.rest ELSE @]
           /\ IF AckReceived(ack)
              THEN /\ pc' = [pc EXCEPT ![c] = "get_body"]
                   /\ log' = [log EXCEPT ![c] = Append(@, Ev("ack", "", 0, ack))]
              ELSE /\ pc' = [pc EXCEPT ![c] = "loop"]
                   /\ log' = [log EXCEPT ![c] = Append(@, Ev("noack", r.kind, 0, <<>>))]
    /\ UNCHANGED <<envVars, sock, ident, w, clients, lock, shutdown_event, mainVars,
                   store, tmpfs, faults, cur, puts, expect, regs>>
    /\ Wire(c)

\* server.py:116-127 stream the body, then count the download
GetBody(c) ==
    /\ Running
    /\ pc[c] = "get_body"
    /\ LET chunk == BodyRead(w[c].body, w[c].pos) IN
       \/ /\ chunk = <<>>
          /\ log' = [log EXCEPT ![c] = Append(@, Metric("Downloads"))]
          /\ pc' = [pc EXCEPT ![c] = "loop"]
          /\ UNCHANGED <<w, faults>>
       \/ /\ chunk # <<>>
          /\ \E ok \in SendOutcomes(c) :
              IF ok
              THEN /\ log' = [log EXCEPT ![c] = Append(@, SentBytes(chunk))]
                   /\ w' = [w EXCEPT ![c].pos = @ + Len(chunk)]
                   /\ pc' = pc
              ELSE /\ log' = [log EXCEPT ![c] =
                                 @ \o <<Ev("sendfail", "", 0, <<>>), Metric("Downloads")>>]
                   /\ pc' = [pc EXCEPT ![c] = "loop"]
                   /\ w' = w
          /\ UNCHANGED faults
       \/ /\ faults > 0
          /\ faults' = faults - 1
          /\ Raise(c, log[c])
          /\ UNCHANGED w
    /\ UNCHANGED <<envVars, inbuf, sock, ident, clients, lock, shutdown_event, mainVars,
                   store, tmpfs, cur, puts, expect, regs>>
    /\ Wire(c)

\* server.py:130-148 parse, acknowledge, open the temporary file
ServePut(c) ==
    /\ Serving(c, "put")
    /\ LET parts == Parts(c)
           size == ParseInt(parts[Len(parts)])
           safe == Basename(Join(SubSeq(parts, 2, Len(parts) - 1)))
       IN  IF Len(parts) < 3
           THEN /\ Reply(c, <<>>, Sent("ERR Invalid PUT format\n"), "loop")
                /\ UNCHANGED <<w, tmpfs>>
           ELSE IF ~size.ok
           THEN /\ Reply(c, <<>>, Sent("ERR Invalid filesize\n"), "loop")
                /\ UNCHANGED <<w, tmpfs>>
           ELSE \E ok \in SendOutcomes(c) :
                IF ok
                THEN /\ log' = [log EXCEPT ![c] = <<Sent("OK")>>]
                     /\ w' = [w EXCEPT ![c] = [safe |-> safe, remaining |-> size.val,
                                               body |-> <<>>, pos |-> 0]]
                     /\ tmpfs' = Put(tmpfs, TmpPath(c, safe), <<>>)
                     /\ pc' = [pc EXCEPT ![c] = PutNext(size.val)]
                ELSE /\ log' = [log EXCEPT ![c] = <<Ev("sendfail", "", 0, <<>>)>>]
                     /\ pc' = [pc EXCEPT ![c] = "finally"]
                     /\ UNCHANGED <<w, tmpfs>>
    /\ UNCHANGED <<envVars, sock, ident, clients, lock, shutdown_event, mainVars,
                   store, faults, puts, expect, regs>>
    /\ Wire(c)

\* server.py:163-174 except Exception: try to report, remove the file, go on
UploadFailed(c, base) ==
    /\ \E ok \in SendOutcomes(c) :
        log' = [log EXCEPT ![c] =
                   IF ok THEN base \o <<Sent("ERR Upload failed\n")>> ELSE base]
    /\ tmpfs' = Drop(tmpfs, TmpPath(c, w[c].safe))
    /\ pc' = [pc EXCEPT ![c] = "loop"]

\* server.py:151-156 one pass of the receive loop
PutRecv(c) ==
    /\ Running
    /\ pc[c] = "put_recv"
    /\ LET r == RecvResult(c, RecvSize(w[c].remaining))
           path == TmpPath(c, w[c].safe)
       IN  CASE r.kind = "data" ->
                  /\ inbuf' = [inbuf EXCEPT ![c] = r.rest]
                  /\ tmpfs' = Put(tmpfs, path, FileWrite(tmpfs[path], r.data))
                  /\ w' = [w EXCEPT ![c].remaining = @ - Len(r.data)]
                  /\ log' = [log EXCEPT ![c] = Append(@, Ev("data", "", 0, r.data))]
                  /\ pc' = [pc EXCEPT ![c] = PutNext(w[c].remaining - Len(r.data))]
             [] r.kind = "eof" ->
                  /\ log' = [log EXCEPT ![c] = Append(@, Ev("eof", "", w[c].remaining, <<>>))]
                  /\ pc' = [pc EXCEPT ![c] = "put_upload"]
                  /\ UNCHANGED <<inbuf, tmpfs, w>>
             [] r.kind \in {"timeout", "error"} ->
                  /\ UploadFailed(c, Append(log[c], Ev("raise", r.kind, 0, <<>>)))
                  /\ UNCHANGED <<inbuf, w>>
    /\ UNCHANGED <<envVars, sock, ident, clients, lock, shutdown_event, mainVars,
                   store, faults, cur, puts, expect, regs>>
    /\ Wire(c)

\* server.py:136 the size the command declared
Declared(c) == ParseInt(cur[c].parts[Len(cur[c].parts)]).val

\* server.py:158-174 upload the file, count it, answer, remove the file
PutUpload(c) ==
    /\ Running
    /\ pc[c] = "put_upload"
    /\ LET path == TmpPath(c, w[c].safe)
           key == w[c].safe
       IN  \E out \in BackendOutcomes :
           /\ Spend(out)
           /\ IF out = "ok"
              THEN /\ store' = Put(store, key, tmpfs[path])
                   /\ \E ok \in SendOutcomes(c) :
                       /\ puts' = Put(puts, key,
                                      [known |-> cur[c].fresh /\ Len(sentData[c]) = Declared(c),
                                       data |-> sentData[c],
                                       declared |-> Declared(c),
                                       answered |-> ok])
                       /\ LET done == log[c] \o <<Ev("commit", "", Len(tmpfs[path]), key),
                                                   Metric("Uploads")>>
                          IN  IF ok
                              THEN /\ log' = [log EXCEPT ![c] = Append(done, Sent("OK Uploaded\n"))]
                                   /\ tmpfs' = Drop(tmpfs, path)
                                   /\ pc' = [pc EXCEPT ![c] = "loop"]
                              ELSE UploadFailed(c, Append(done, Ev("sendfail", "", 0, <<>>)))
              ELSE /\ UploadFailed(c, Append(log[c], Ev("raise", out, 0, <<>>)))
                   /\ UNCHANGED <<store, puts>>
    /\ UNCHANGED <<envVars, inbuf, sock, ident, w, clients, lock, shutdown_event, mainVars,
                   cur, expect, regs>>
    /\ Wire(c)

\* server.py:177-180
ServeShutdown(c) ==
    /\ Serving(c, "shutdown")
    /\ \E ok \in SendOutcomes(c) :
        /\ log' = [log EXCEPT ![c] =
                      <<IF ok THEN Sent("OK Shutting down\n") ELSE Ev("sendfail", "", 0, <<>>)>>]
        /\ shutdown_event' = (ok \/ shutdown_event)
    /\ pc' = [pc EXCEPT ![c] = "finally"]
    /\ UNCHANGED <<envVars, sock, ident, w, clients, lock, mainVars,
                   store, tmpfs, faults, puts, expect, regs>>
    /\ Wire(c)

\* server.py:182-183
ServeUnknown(c) ==
    /\ Serving(c, "unknown")
    /\ Reply(c, <<>>, Sent("ERR Unknown command\n"), "loop")
    /\ UNCHANGED <<envVars, sock, ident, w, clients, lock, shutdown_event, mainVars,
                   store, tmpfs, faults, puts, expect, regs>>
    /\ Wire(c)

\* server.py:185-188 finally: with clients_lock: if conn in clients: remove
Deregister(c) ==
    /\ Running
    /\ pc[c] = "finally"
    /\ lock = Free
    /\ lock' = Worker(c)
    /\ clients' = IF InList(clients, c) THEN RemoveFirst(clients, c) ELSE clients
    /\ regs' = [regs EXCEPT ![c].dereg = IF InList(clients, c) THEN @ + 1 ELSE @]
    /\ w' = [w EXCEPT ![c] = W0]
    /\ pc' = [pc EXCEPT ![c] = "dereg_metric"]
    /\ UNCHANGED <<envVars, inbuf, sock, ident, shutdown_event, mainVars,
                   store, tmpfs, faults, histVars>>
    /\ Wire(c)

\* server.py:189 put_metric("ActiveClients", ...) inside the with block
DeregisterMetric(c) ==
    /\ Running
    /\ pc[c] = "dereg_metric"
    /\ lock' = Free
    /\ pc' = [pc EXCEPT ![c] = "close"]
    /\ UNCHANGED <<envVars, inbuf, sock, ident, w, clients, shutdown_event, mainVars,
                   store, tmpfs, faults, histVars, regs>>
    /\ Wire(c)

\* server.py:190-194 conn.close(); the thread ends
CloseConn(c) ==
    /\ Running
    /\ pc[c] = "close"
    /\ sock' = [sock EXCEPT ![c] = "closed"]
    /\ pc' = [pc EXCEPT ![c] = "done"]
    /\ ident' = [ident EXCEPT ![c] = 0]
    /\ UNCHANGED <<envVars, inbuf, w, clients, lock, shutdown_event, mainVars,
                   store, tmpfs, faults, histVars, regs>>
    /\ Wire(c)

----------------------------------------------------------------------------
(* client.py: the interactive client, where it is the peer *)

\* s.sendall(): the segments reach the server in order
ClientSend(c, segs) ==
    /\ inbuf' = [inbuf EXCEPT ![c] = @ \o segs]
    /\ sentData' = [sentData EXCEPT ![c] =
                       IF segs = <<>> THEN @
                       ELSE IF Head(segs).cmd THEN <<>>
                       ELSE @ \o LogBytes([i \in 1..Len(segs) |-> SentBytes(segs[i].text)])]
    /\ cur' = [cur EXCEPT ![c].fresh = IF segs # <<>> /\ Head(segs).cmd THEN FALSE ELSE @]

\* s.recv(n): up to n of the bytes that have arrived, b"" once the server has
\* closed the connection; with neither the call blocks
ClientRecv(c, n) ==
    IF wire[c].q # <<>>
    THEN [kind |-> "data",
          data |-> SubSeq(wire[c].q, 1, Min(n, Len(wire[c].q))),
          rest |-> SubSeq(wire[c].q, Min(n, Len(wire[c].q)) + 1, Len(wire[c].q))]
    ELSE IF sock[c] = "closed"
    THEN [kind |-> "eof", data |-> <<>>, rest |-> <<>>]
    ELSE [kind |-> "block", data |-> <<>>, rest |-> <<>>]

\* the chunks f.read(BUFFER) cuts a file into
RECURSIVE Chunks(_)
Chunks(content) ==
    IF content = <<>> THEN <<>>
    ELSE <<Data(SubSeq(content, 1, Min(ClientBUFFER, Len(content))))>>
         \o Chunks(SubSeq(content, Min(ClientBUFFER, Len(content)) + 1, Len(content)))

\* client.py:43-62, 66, 72-83, 118-131 read a line at the prompt and send its command
ClientCommand(c) ==
    /\ mainPc # "done"
    /\ client[c].pc = "prompt"
    /\ peer[c] = "open" /\ sock[c] = "open"
    /\ script[c] # <<>>
    /\ script' = [script EXCEPT ![c] = Tail(@)]
    /\ LET parts == Split(Strip(Head(script[c]).text))
           command == IF parts = <<>> THEN <<>> ELSE Lower(parts[1])
           remote == IF Len(parts) >= 3 THEN Join(SubSeq(parts, 2, Len(parts) - 1))
                     ELSE Join(Tail(parts))
           sends(segs, next) ==
               /\ ClientSend(c, segs)
               /\ client' = [client EXCEPT ![c] =
                                [@ EXCEPT !.pc = next, !.n = @ + 1, !.resp = <<>>,
                                          !.path = IF next = "put_wait" THEN parts[2] ELSE <<>>]]
           skips == UNCHANGED <<inbuf, sentData, cur, client>>
       IN  CASE command = W_ls -> sends(<<Cmd(<<W_ls>>)>>, "ls_wait")
             [] command = W_get ->
                  IF Len(parts) < 2 THEN skips
                  ELSE sends(<<Cmd(<<W_get, remote>>)>>, "get_wait")
             [] command = W_put ->
                  IF Len(parts) # 2 \/ parts[2] \notin DOMAIN LocalFiles THEN skips
                  ELSE sends(<<Cmd(<<W_put, Basename(parts[2]),
                                     Dec(Len(LocalFiles[parts[2]]))>>)>>, "put_wait")
             [] OTHER -> skips
    /\ UNCHANGED <<signal, peer, sock, workerVars, clients, lock, shutdown_event, mainVars,
                   store, tmpfs, faults, log, puts, expect, regs, wire>>

\* client.py:50-51, 151 exit: s.close()
ClientExit(c) ==
    /\ mainPc # "done"
    /\ client[c].pc = "prompt"
    /\ peer[c] = "open"
    /\ script[c] = <<>>
    /\ peer' = [peer EXCEPT ![c] = "closed"]
    /\ client' = [client EXCEPT ![c].pc = "done"]
    /\ UNCHANGED <<script, signal, sentData, inbuf, sock, workerVars, clients, lock,
                   shutdown_event, mainVars, store, tmpfs, faults, histVars, regs, wire>>

\* the rest of a client step that sends nothing
ClientOnly ==
    UNCHANGED <<script, signal, peer, sock, workerVars, clients, lock, shutdown_event,
                mainVars, store, tmpfs, faults, log, puts, expect, regs>>

\* the server has said all it has to say for now: it waits for a command
ServerQuiet(c) == pc[c] \in {"loop", "recv"} /\ inbuf[c] = <<>>

\* client.py:10-34, 67 recv_until_pause: read what arrives until nothing has
\* arrived for 0.3 s; the pause is taken to end the read only once the
\* server has nothing more to send (the timing most in the client's favour)
ClientLs(c) ==
    /\ mainPc # "done"
    /\ client[c].pc = "ls_wait"
    /\ LET r == ClientRecv(c, ClientBUFFER) IN
        IF r.kind = "data"
        THEN /\ wire' = [wire EXCEPT ![c].q = r.rest]
             /\ client' = [client EXCEPT ![c].resp = @ \o r.data]
        ELSE /\ r.kind = "eof" \/ ServerQuiet(c)
             /\ client' = [client EXCEPT ![c].pc = "prompt"]
             /\ UNCHANGED wire
    /\ UNCHANGED <<inbuf, sentData, cur>>
    /\ ClientOnly

\* client.py:84-98 read the response to get, acknowledge "OK <size>"
ClientGetResponse(c) ==
    /\ mainPc # "done"
    /\ client[c].pc = "get_wait"
    /\ LET r == ClientRecv(c, ClientBUFFER)
           response == Untagged(r.data)
           tokens == Split(response)
           size == ParseInt(tokens[2])
           ends(next) ==
               /\ client' = [client EXCEPT ![c].pc = next, ![c].resp = @ \o r.data]
               /\ UNCHANGED <<inbuf, sentData, cur, peer>>
       IN  /\ r.kind # "block"
           /\ wire' = [wire EXCEPT ![c].q = r.rest]
           /\ IF IsPrefix(<<"E", "R", "R">>, response) THEN ends("prompt")
              ELSE IF Len(tokens) # 2 \/ tokens[1] # <<"O", "K">> THEN ends("prompt")
              ELSE IF ~size.ok
              THEN \* int() raises ValueError, which nothing catches: the client ends
                   /\ client' = [client EXCEPT ![c].pc = "done", ![c].resp = @ \o r.data]
                   /\ peer' = [peer EXCEPT ![c] = "closed"]
                   /\ UNCHANGED <<inbuf, sentData, cur>>
              ELSE /\ ClientSend(c, <<AckOK>>)
                   /\ client' = [client EXCEPT
                                    ![c].pc = IF size.val > 0 THEN "get_body" ELSE "prompt",
                                    ![c].remaining = size.val,
                                    ![c].resp = @ \o r.data]
                   /\ UNCHANGED peer
    /\ UNCHANGED <<script, signal, sock, workerVars, clients, lock, shutdown_event,
                   mainVars, store, tmpfs, faults, log, puts, expect, regs>>

\* client.py:99-106 one pass of the download loop
ClientGetBody(c) ==
    /\ mainPc # "done"
    /\ client[c].pc = "get_body"
    /\ LET r == ClientRecv(c, Min(ClientBUFFER, client[c].remaining)) IN
        /\ r.kind # "block"
        /\ wire' = [wire EXCEPT ![c].q = r.rest]
        /\ client' = [client EXCEPT
                         ![c].resp = @ \o r.data,
                         ![c].remaining = @ - Len(r.data),
                         ![c].pc = IF r.kind = "eof" \/ client[c].remaining = Len(r.data)
                                   THEN "prompt" ELSE "get_body"]
    /\ UNCHANGED <<inbuf, sentData, cur>>
    /\ ClientOnly

\* client.py:133-146 read the response to put; on OK send the file and go
\* back to the prompt
ClientPutResponse(c) ==
    /\ mainPc # "done"
    /\ client[c].pc = "put_wait"
    /\ LET r == ClientRecv(c, ClientBUFFER) IN
        /\ r.kind # "block"
        /\ wire' = [wire EXCEPT ![c].q = r.rest]
        /\ client' = [client EXCEPT ![c].pc = "prompt", ![c].resp = @ \o r.data]
        /\ IF IsPrefix(<<"O", "K">>, Untagged(r.data))
           THEN ClientSend(c, Chunks(LocalFiles[client[c].path]))
           ELSE UNCHANGED <<inbuf, sentData, cur>>
    /\ ClientOnly

----------------------------------------------------------------------------

Next ==
    \/ \E c \in Conns : PeerConnect(c)
    \/ \E c \in Conns : PeerSend(c)
    \/ \E c \in Conns : PeerClose(c)
    \/ MainCheck
    \/ \E c \in Conns : MainAccept(c)
    \/ MainAcceptTimeout
    \/ Signal
    \/ MainWalkBegin
    \/ MainWalkSend
    \/ MainWalkClose
    \/ MainWalkEnd
    \/ \E c \in Conns : Register(c)
    \/ \E c \in Conns : RegisterMetric(c)
    \/ \E c \in Conns : LoopCheck(c)
    \/ \E c \in Conns : RecvTimeout(c)
    \/ \E c \in Conns : RecvClosed(c)
    \/ \E c \in Conns : RecvBlank(c)
    \/ \E c \in Conns : ServeLs(c)
    \/ \E c \in Conns : ServeGet(c)
    \/ \E c \in Conns : GetAck(c)
    \/ \E c \in Conns : GetBody(c)
    \/ \E c \in Conns : ServePut(c)
    \/ \E c \in Conns : PutRecv(c)
    \/ \E c \in Conns : PutUpload(c)
    \/ \E c \in Conns : ServeShutdown(c)
    \/ \E c \in Conns : ServeUnknown(c)
    \/ \E c \in Conns : Deregister(c)
    \/ \E c \in Conns : DeregisterMetric(c)
    \/ \E c \in Conns : CloseConn(c)
    \/ \E c \in Conns : ClientCommand(c)
    \/ \E c \in Conns : ClientExit(c)
    \/ \E c \in Conns : ClientLs(c)
    \/ \E c \in Conns : ClientGetResponse(c)
    \/ \E c \in Conns : ClientGetBody(c)
    \/ \E c \in Conns : ClientPutResponse(c)

Spec == Init /\ [][Next]_vars

----------------------------------------------------------------------------
(* Reading the history of a command *)

HasEv(l, k) == \E i \in 1..Len(l) : l[i].k = k
HasSent(l, text) == \E i \in 1..Len(l) : l[i].k = "send" /\ l[i].s = text

\* what the worker itself did (the shutdown walk of main() writes "bcast")
RECURSIVE WorkerLog(_)
WorkerLog(l) ==
    IF l = <<>> THEN <<>>
    ELSE IF Head(l).k = "bcast" THEN WorkerLog(Tail(l))
    ELSE <<Head(l)>> \o WorkerLog(Tail(l))

\* the body bytes the worker wrote, in order
RECURSIVE BodyOf(_)
BodyOf(l) ==
    IF l = <<>> THEN <<>>
    ELSE IF Head(l).k = "bytes" THEN Head(l).b \o BodyOf(Tail(l))
    ELSE BodyOf(Tail(l))

\* the session is at the top of the command loop
Awaiting(c) == pc[c] \in {"loop", "recv"}

CurIs(c, word) == cur[c].parts # <<>> /\ Lower(cur[c].parts[1]) = word

\* the get of worker c found its object and sent the header
GetOpened(c) == CurIs(c, W_get) /\ log[c] # <<>> /\ WorkerLog(log[c])[1].k = "hdr"

\* the size the header "OK <size>" announces, read as the client reads it
HdrSize(c) == ParseInt(Split(WorkerLog(log[c])[1].b)[2]).val

\* worker c reads a command in this step
Serves(c) == pc[c] = "recv" /\ pc'[c] # "recv" /\ Got(c).kind = "data" /\ Parts(c) # <<>>

\* the connection of c is intact: neither end has closed it
Intact(c) == sock[c] = "open" /\ peer[c] = "open"

----------------------------------------------------------------------------
(* C1: round trip. When the object a get opens was stored by a put whose    *)
(* peer sent exactly the declared S bytes B and was answered OK Uploaded,   *)
(* the header is "OK S", the worker writes nothing but body bytes after it, *)
(* those bytes are a prefix of B at every moment, and they are exactly B    *)
(* once the download is counted with no send having failed.                 *)
C1_RoundTrip ==
    \A c \in Conns :
        (GetOpened(c) /\ expect[c].known /\ expect[c].answered) =>
            LET B == expect[c].data
                l == WorkerLog(log[c])
            IN  /\ l[1].b = OkSize(Len(B))
                /\ expect[c].declared = Len(B)
                /\ \A i \in 2..Len(l) :
                      l[i].k \in {"ack", "noack", "bytes", "sendfail", "metric", "raise"}
                /\ IsPrefix(BodyOf(l), B)
                /\ (HasEv(l, "metric") /\ ~HasEv(l, "sendfail")) => BodyOf(l) = B

\* a payload longer than one chunk came back whole
C1_Witness ==
    \E c \in Conns :
        /\ GetOpened(c) /\ expect[c].known /\ expect[c].answered
        /\ Len(expect[c].data) > BUFFER
        /\ HasEv(log[c], "metric") /\ ~HasEv(log[c], "sendfail")
        /\ BodyOf(log[c]) = expect[c].data

\* a get on one connection returned what another connection had put
C1_WitnessAcross ==
    \E c \in Conns :
        /\ GetOpened(c) /\ expect[c].known /\ expect[c].answered
        /\ c = 2
        /\ HasEv(log[c], "metric") /\ BodyOf(log[c]) = expect[c].data

(* C2: when the peer closes during a put before the declared number of      *)
(* bytes arrived, the server neither answers OK Uploaded nor commits a blob *)
C2_TruncatedPutRejected ==
    \A c \in Conns :
        HasEv(log[c], "eof") =>
            /\ ~HasSent(log[c], "OK Uploaded\n")
            /\ ~HasEv(log[c], "commit")

(* C3: in a get no body byte is written before acknowledgment bytes were    *)
(* received, and none at all once the wait for them ended without any       *)
C3_BodyAfterAck ==
    \A c \in Conns :
        /\ \A i \in 1..Len(log[c]) :
              log[c][i].k = "bytes" =>
                  \E j \in 1..(i - 1) : log[c][j].k = "ack" /\ log[c][j].b # <<>>
        /\ HasEv(log[c], "noack") => ~HasEv(log[c], "bytes")

C3_Witness ==
    \E c \in Conns : GetOpened(c) /\ HasEv(log[c], "ack") /\ HasEv(log[c], "bytes")

C3_WitnessNoAck ==
    \E c \in Conns : GetOpened(c) /\ HasEv(log[c], "noack") /\ Awaiting(c)

(* C4: an acknowledged get whose body stops short of the announced size (a  *)
(* send failed, the stream broke) does not go back to awaiting a command    *)
(* and is not counted as a download                                         *)
C4_ShortBodyEndsSession ==
    \A c \in Conns :
        (/\ GetOpened(c)
         /\ HasEv(log[c], "ack")
         /\ pc[c] # "get_body"
         /\ Len(BodyOf(log[c])) < HdrSize(c)) =>
            /\ ~Awaiting(c)
            /\ ~HasEv(log[c], "metric")

\* the text is an int() literal, and one below zero
IntegerText(t) ==
    DigitsOk(IF t # <<>> /\ Head(t) \in {"+", "-"} THEN Tail(t) ELSE t)

NegativeText(t) ==
    t # <<>> /\ Head(t) = "-" /\ DigitsOk(Tail(t)) /\ DigitsValue(Tail(t), 0) > 0

\* the last token of the command worker c reads in this step
LastPart(c) == Parts(c)[Len(Parts(c))]

(* C5: a get for a name no blob has, the backend answering, is answered     *)
(* with exactly ERR File not found: no header, no body byte, nothing else   *)
(* changes, and on an intact connection the session is back at the top of   *)
(* the command loop, open and registered                                    *)
C5_GetMissing ==
    /\ [][\A c \in Conns :
            (/\ Serves(c)
             /\ Lower(Parts(c)[1]) = W_get
             /\ Len(Parts(c)) >= 2
             /\ Basename(Join(Tail(Parts(c)))) \notin DOMAIN store
             /\ faults' = faults) =>
                /\ store' = store /\ clients' = clients /\ sock' = sock
                /\ log'[c] \in {<<Sent("ERR File not found\n")>>, <<Ev("sendfail", "", 0, <<>>)>>}
                /\ Intact(c) =>
                      /\ log'[c] = <<Sent("ERR File not found\n")>>
                      /\ pc'[c] = "loop"
                      /\ InList(clients', c)]_vars
    /\ [](\A c \in Conns :
            (CurIs(c, W_get) /\ HasSent(log[c], "ERR File not found\n")) =>
                WorkerLog(log[c]) = <<Sent("ERR File not found\n")>>)

C5_Witness ==
    \E c \in Conns :
        /\ CurIs(c, W_get)
        /\ Basename(Join(Tail(cur[c].parts))) \notin DOMAIN store
        /\ faults = MaxFaults
        /\ log[c] = <<Sent("ERR File not found\n")>>
        /\ Awaiting(c) /\ sock[c] = "open" /\ InList(clients, c)

(* C6: a put whose last token is no integer is answered ERR Invalid         *)
(* filesize: no OK, no payload byte read, no blob or temporary file         *)
(* written, and on an intact connection the session is back at the top of   *)
(* the command loop                                                         *)
C6_PutBadSize ==
    /\ [][\A c \in Conns :
            (/\ Serves(c)
             /\ Lower(Parts(c)[1]) = W_put
             /\ Len(Parts(c)) >= 3
             /\ ~IntegerText(LastPart(c))) =>
                /\ store' = store /\ tmpfs' = tmpfs /\ puts' = puts
                /\ inbuf'[c] = Got(c).rest
                /\ log'[c] \in {<<Sent("ERR Invalid filesize\n")>>, <<Ev("sendfail", "", 0, <<>>)>>}
                /\ Intact(c) =>
                      /\ log'[c] = <<Sent("ERR Invalid filesize\n")>>
                      /\ pc'[c] = "loop"]_vars
    /\ [](\A c \in Conns :
            (/\ CurIs(c, W_put)
             /\ Len(cur[c].parts) >= 3
             /\ ~IntegerText(cur[c].parts[Len(cur[c].parts)])) =>
                /\ Len(WorkerLog(log[c])) <= 1
                /\ ~HasSent(log[c], "OK")
                /\ ~HasEv(log[c], "data")
                /\ ~HasEv(log[c], "commit"))

C6_Witness ==
    \E c \in Conns :
        /\ CurIs(c, W_put)
        /\ Len(cur[c].parts) >= 3
        /\ ~IntegerText(cur[c].parts[Len(cur[c].parts)])
        /\ log[c] = <<Sent("ERR Invalid filesize\n")>>
        /\ Awaiting(c)
        /\ store = <<>>

(* C7: a put whose size token is an integer below zero gets no OK and       *)
(* creates or overwrites no blob                                            *)
C7_NegativeSizeRejected ==
    \A c \in Conns :
        (/\ CurIs(c, W_put)
         /\ Len(cur[c].parts) >= 3
         /\ NegativeText(cur[c].parts[Len(cur[c].parts)])) =>
            /\ ~HasSent(log[c], "OK")
            /\ ~HasEv(log[c], "commit")

\* what serving an unrecognised command does in one step
UnknownAnswered(c) ==
    /\ shutdown_event' = shutdown_event
    /\ store' = store /\ tmpfs' = tmpfs /\ clients' = clients /\ sock' = sock
    /\ log'[c] \in {<<Sent("ERR Unknown command\n")>>, <<Ev("sendfail", "", 0, <<>>)>>}
    /\ Intact(c) =>
          /\ log'[c] = <<Sent("ERR Unknown command\n")>>
          /\ pc'[c] = "loop"

C8_WitnessShutdown ==
    \E c \in Conns :
        /\ CurIs(c, W_shutdown)
        /\ log[c] = <<Sent("OK Shutting down\n")>>
        /\ shutdown_event /\ signal # "sent"

\* the rows of a listing: <<size, name>> as a client reads them
RowOf(line) == <<ParseInt(Split(line)[1]).val, Split(line)[Len(Split(line))]>>

(* C9: an ls lists every name whose last put, of a declared size S >= 0,    *)
(* was answered OK Uploaded, with S in the size field; on an empty store it *)
(* answers the no-files message                                             *)
C9_LsAfterPut ==
    [][\A c \in Conns :
          (/\ Serves(c)
           /\ Lower(Parts(c)[1]) = W_ls
           /\ faults' = faults
           /\ ~HasEv(log'[c], "sendfail")) =>
              IF DOMAIN store = {}
              THEN log'[c] = <<Sent("No files in bucket\n")>>
              ELSE /\ log'[c][1].k = "rows"
                   /\ \A k \in DOMAIN puts :
                         (puts[k].answered /\ puts[k].declared >= 0) =>
                             \E i \in 1..Len(Lines(log'[c][1].b)) :
                                 RowOf(Lines(log'[c][1].b)[i]) = <<puts[k].declared, k>>]_vars

(* C10: the registry holds a connection exactly from its worker's           *)
(* registration to its deregistration, never twice, and a worker that has   *)
(* passed its cleanup has registered once and deregistered once             *)
Occurrences(q, c) == Cardinality({i \in 1..Len(q) : q[i] = c})

C10_Registry ==
    \A c \in Conns :
        /\ Occurrences(clients, c) <= 1
        /\ InList(clients, c) <=> (regs[c].reg = 1 /\ regs[c].dereg = 0)
        /\ regs[c].reg <= 1 /\ regs[c].dereg <= regs[c].reg
        /\ regs[c].reg = (IF pc[c] \in {"none", "register"} THEN 0 ELSE 1)
        /\ regs[c].dereg = (IF pc[c] \in {"dereg_metric", "close", "done"} THEN 1 ELSE 0)

\* a worker an exception took out of the loop has deregistered and ended
C10_Witness ==
    \E c \in Conns :
        /\ pc[c] = "done" /\ HasEv(log[c], "raise")
        /\ regs[c] = [reg |-> 1, dereg |-> 1] /\ ~InList(clients, c)

\* both connections registered at once
C10_WitnessBoth == Len(clients) = 2

\* the connections main() accepted that neither side of the server has closed
OpenSessions == {c \in Conns : sock[c] = "open"}

(* C11: at every moment the registry holds as many connections as there are *)
(* accepted connections not yet closed                                      *)
C11_RegistryCountsOpen == Len(clients) = Cardinality(OpenSessions)

(* C12: when the shutdown has finished (main() has walked the registry and  *)
(* returned) the registry is empty and every accepted connection is closed  *)
C12_ShutdownCompletes ==
    mainPc = "done" => (clients = <<>> /\ OpenSessions = {})

\* a payload read of the put worker c is serving hit the idle timeout
PutStalled(c) ==
    /\ CurIs(c, W_put)
    /\ \E i \in 1..Len(log[c]) : log[c][i].k = "raise" /\ log[c][i].s = "timeout"

(* C13: after a payload read of a put hit the idle timeout the session does *)
(* not go back to awaiting a command                                        *)
C13_StalledPutEndsSession ==
    \A c \in Conns : PutStalled(c) => ~Awaiting(c)

\* the response to the command is one ERR line
IsErrReply(l) ==
    /\ Len(l) = 1
    /\ l[1].k = "send"
    /\ l[1].s \in {"ERR S3 list error\n", "ERR Upload failed\n"}

(* C14: when the backend call of an ls, or the commit of a put, fails in    *)
(* any way, the worker answers the command with an ERR line and, on an      *)
(* intact connection, is back at the top of the command loop                *)
C14_BackendFailureReported ==
    [][\A c \in Conns :
          /\ (Serves(c) /\ Lower(Parts(c)[1]) = W_ls /\ faults' # faults /\ Intact(c)) =>
                 (IsErrReply(log'[c]) /\ pc'[c] = "loop")
          /\ (pc[c] = "put_upload" /\ faults' # faults /\ Intact(c)) =>
                 /\ HasSent(log'[c], "ERR Upload failed\n")
                 /\ ~HasSent(log'[c], "OK Uploaded\n")
                 /\ pc'[c] = "loop"]_vars

\* worker c is between the OK of a put and the end of its commit
InPut(c) == pc[c] \in {"put_recv", "put_upload"}

\* the payload bytes worker c has read for its put, in order
RECURSIVE DataOf(_)
DataOf(l) ==
    IF l = <<>> THEN <<>>
    ELSE IF Head(l).k = "data" THEN Head(l).b \o DataOf(Tail(l))
    ELSE DataOf(Tail(l))

(* C15: two workers that are in a put at the same time never write to the   *)
(* same temporary file; the file of each holds exactly the bytes read from  *)
(* its own connection, a prefix of what its own peer sent, and that is what *)
(* its commit stores; and a worker in a put can always take its next step,  *)
(* whatever the other worker is doing                                       *)
C15_UploadsIndependent ==
    /\ [](\A c \in Conns : InPut(c) =>
            /\ \A d \in Conns \ {c} : InPut(d) => TmpPath(c, w[c].safe) # TmpPath(d, w[d].safe)
            /\ TmpPath(c, w[c].safe) \in DOMAIN tmpfs
            /\ tmpfs[TmpPath(c, w[c].safe)] = DataOf(log[c])
            /\ cur[c].fresh => IsPrefix(tmpfs[TmpPath(c, w[c].safe)], sentData[c])
            /\ Running => ENABLED (PutRecv(c) \/ PutUpload(c)))
    /\ [][\A c \in Conns :
            (pc[c] = "put_upload" /\ HasEv(log'[c], "commit")) =>
                store'[w[c].safe] = DataOf(log[c])]_vars

\* both workers hold their whole payload in their own file at the same time
C15_Witness ==
    /\ \A c \in Conns : pc[c] = "put_upload" /\ cur[c].fresh
    /\ w[1].safe = w[2].safe
    /\ tmpfs[TmpPath(1, w[1].safe)] = <<"a">>
    /\ tmpfs[TmpPath(2, w[2].safe)] = <<"b">>

\* both uploads were committed and answered
C15_WitnessBothDone ==
    \A c \in Conns : CurIs(c, W_put) /\ HasSent(log[c], "OK Uploaded\n") /\ Awaiting(c)

NoSeparator(name) == \A i \in 1..Len(name) : name[i] # "/"

\* seg is what follows the last "/" of name (all of name when it has none)
IsLastSegment(seg, name) ==
    /\ NoSeparator(seg)
    /\ \E k \in 0..Len(name) :
          /\ SubSeq(name, k + 1, Len(name)) = seg
          /\ k = 0 \/ name[k] = "/"

LastSegment(name) ==
    CHOOSE seg \in {SubSeq(name, k + 1, Len(name)) : k \in 0..Len(name)} : IsLastSegment(seg, name)

\* the name the peer supplied in the command worker c is serving
GetName(parts) == Join(Tail(parts))
PutName(parts) == Join(SubSeq(parts, 2, Len(parts) - 1))

(* C16: the key a get or a put hands to the backend is the last segment of  *)
(* the name the peer sent and holds no "/": the key of an opened object, of *)
(* a put in progress, of every temporary file and of every stored blob, and *)
(* a get finds an object exactly when the last segment of its name is a key *)
C16_SingleSegment ==
    /\ [](/\ \A c \in Conns :
               /\ pc[c] \in {"get_ack", "get_body"} =>
                     IsLastSegment(w[c].safe, GetName(cur[c].parts))
               /\ InPut(c) => IsLastSegment(w[c].safe, PutName(cur[c].parts))
          /\ \A k \in DOMAIN store : NoSeparator(k)
          /\ \A p \in DOMAIN tmpfs : NoSeparator(p[2]))
    /\ [][\A c \in Conns :
            (/\ Serves(c)
             /\ Lower(Parts(c)[1]) = W_get
             /\ Len(Parts(c)) >= 2
             /\ faults' = faults
             /\ ~HasEv(log'[c], "sendfail")) =>
                (log'[c][1].k = "hdr" <=> LastSegment(GetName(Parts(c))) \in DOMAIN store)]_vars

\* a put of d/x was committed under the key x
C16_Witness ==
    \E c \in Conns :
        /\ CurIs(c, W_put)
        /\ PutName(cur[c].parts) = N_dx
        /\ HasEv(log[c], "commit")
        /\ DOMAIN store = {N_x}

\* a get of d/x opened the object x
C16_WitnessGet ==
    \E c \in Conns :
        /\ GetOpened(c)
        /\ GetName(cur[c].parts) = N_dx
        /\ pc[c] = "get_body" /\ w[c].safe = N_x

\* the holder of the lock is at a call that goes to the network: put_metric
\* (CloudWatch) in a worker, sendall / shutdown / close of the walk in main()
HolderInNetworkCall ==
    \/ \E c \in Conns : lock = Worker(c) /\ pc[c] \in {"register_metric", "dereg_metric"}
    \/ lock = MainThread /\ mainPc \in {"walk_send", "walk_close"}

(* C17: no thread holds the registry lock while it makes a blocking socket  *)
(* or network call                                                          *)
C17_LockNotHeldAcrossNetwork == ~HolderInNetworkCall

\* every write of main() into a connection whose get was acknowledged comes
\* after the whole body of size bytes was written (or after a send failed,
\* which ended the body)
OnlyBodyAfterAck(l, size) ==
    \A i \in 1..Len(l) :
        (l[i].k = "bcast" /\ \E j \in 1..(i - 1) : l[j].k = "ack") =>
            \/ Len(BodyOf(SubSeq(l, 1, i - 1))) >= size
            \/ \E j \in 1..(i - 1) : l[j].k = "sendfail"

(* C18: in a get, from the acknowledgment to the end of the body, nothing   *)
(* but the body bytes the worker sends is written to the connection: no     *)
(* other thread writes to it before the worker has streamed the whole body  *)
C18_OnlyOwnerWrites ==
    \A c \in Conns : GetOpened(c) => OnlyBodyAfterAck(log[c], HdrSize(c))

\* nothing to read on an intact connection: a command read times out
Idle(c) == Intact(c) /\ inbuf[c] = <<>>

(* C19: while the shutdown flag is not set, a session awaiting a command on *)
(* an idle connection stays awaiting (the read times out and is repeated);  *)
(* it leaves for its cleanup without having read a command only when the    *)
(* peer has closed (zero-byte read) or the socket is closed (socket error)  *)
C19_IdleKeepsSession ==
    [][\A c \in Conns :
          /\ (Awaiting(c) /\ Idle(c) /\ ~shutdown_event) =>
                 (Awaiting(c)' /\ sock'[c] = "open" /\ InList(clients', c) = InList(clients, c))
          /\ (pc[c] = "recv" /\ Idle(c)) => pc'[c] \in {"recv", "loop"}
          /\ (Awaiting(c) /\ ~shutdown_event /\ ~Serves(c) /\ pc'[c] = "finally") =>
                 (inbuf[c] = <<>> /\ (peer[c] = "closed" \/ sock[c] = "closed"))]_vars

\* a command read timed out and the worker waits again, still registered
C19_Witness ==
    \E c \in Conns :
        /\ pc[c] = "recv" /\ Idle(c) /\ ~shutdown_event
        /\ cur[c].parts # <<>> /\ log[c] # <<>>
        /\ script[c] # <<>>
        /\ InList(clients, c)

(* C20: every byte client.py reads as the answer to the command it sent     *)
(* last was written by the server while serving that same command           *)
C20_ClientInStep ==
    \A c \in Conns :
        client[c].pc # "off" =>
            \A i \in 1..Len(client[c].resp) : client[c].resp[i].n = client[c].n

====
